---- MODULE Spec2Model ----
(***************************************************************************)
(* Review-driven rating aggregation of the rental-room data-access layer   *)
(* (lib/room-service.ts: addReview and updateRoomRating) over the hosted    *)
(* document store.  Every remote call (setDoc, getDocs, updateDoc) is one   *)
(* atomic step of the store; the calls of one addReview are separate steps, *)
(* so invocations by different reviewers interleave between them.           *)
(*                                                                         *)
(* Ratings stored on a room are kept in tenths (4.3 is 43).                 *)
(*                                                                         *)
(* The other functions of lib/room-service.ts (rooms, favorites, reads),    *)
(* AuthProvider of contexts/auth-context.tsx and the handlers of the        *)
(* dashboard and of the room page have specifications of their own below.   *)
(***************************************************************************)
EXTENDS Integers, Sequences, FiniteSets, TLC

\* ------------------------------------------------------------------ bounds
NumUsers == 2
MaxCalls == 2
MaxReviews == 20

\* ------------------------------------------------------------- the domain
Uids == {"u" \o ToString(i) : i \in 1..NumUsers}
Slots == 1..2
RoomIds == {"r1", "r2"}
Ratings == {2, 4, 5}
Comments == {"fine"}
NoUser == "null"
Absent == -1

\* user.displayName: u1 has none, the others have one
displayName(uid) == IF uid = "u1" THEN "" ELSE "name-" \o uid

\* `${user.uid}_${roomId}`
ReviewKey(uid, roomId) == uid \o "_" \o roomId

Users == Uids \cup {NoUser}

ReviewKeys == {ReviewKey(u, r) : u \in Users, r \in RoomIds}

NoDoc == [exists |-> FALSE]

\* The ratings a review carries when the rating is within its expected range.
Stars == 1..5

\* A roomId argument is any string; "x_r1" is one that names no room.
RoomIdArgs == RoomIds \cup {"x_r1"}

\* A field that a RoomData object does not carry.
Undefined == "undefined"

FavoriteKey_RoomOnly(uid, roomId) == roomId

\* `${user.uid}_${roomId}`
FavoriteKey(uid, roomId) == uid \o "_" \o roomId

FavoriteKeys == {FavoriteKey(u, r) : u \in Users, r \in RoomIdArgs}

\* A room id with no document behind it.
NoRoom == [exists |-> FALSE, owner |-> NoUser, ownerName |-> "", rating |-> Absent,
           reviews |-> Absent, createdAt |-> 0, updatedAt |-> 0]

\* The functions of the data-access layer besides addReview.
ActingFns == {"addRoom", "updateRoom", "deleteRoom", "getRoomsByOwner",
              "uploadRoomImage", "addFavorite", "removeFavorite", "getFavorites"}
PublicFns == {"getAllRooms", "getRoomById"}

VARIABLES
    rooms,         \* the "rooms" collection: room id -> document
    reviews,       \* the "reviews" collection: document key -> document
    call,          \* the addReview invocations in flight, one per slot
    clock,         \* the store's server time, one tick per committed write
    ret,           \* the addReview call that returned in the last step, if any
    started,       \* number of invocations so far (bounds the model)
    snapOf,        \* history: read time of the query behind each room's summary
    staleKeys,     \* history: reviews whose summary write failed and is not redone
    recompute,     \* one updateRoomRating run on a query result given review by review
    favorites,     \* the "favorites" collection: document key -> document
    op,            \* the room and favorite calls in flight, one per slot
    nextRoom,      \* number of the next document id addDoc generates for a room
    out,           \* the room or favorite call that returned in the last step, if any
    auth,          \* AuthProvider: its state, the persisted record, the calls in flight
    page           \* the dashboard and the room page: what their handlers read and set

\* The state of addReview / updateRoomRating and the state of the other
\* operations of the data-access layer.
reviewVars == <<rooms, reviews, call, clock, ret, started, snapOf, staleKeys>>
layerVars == <<recompute, favorites, op, nextRoom, out>>

\* The state of the client: the auth context and the pages.
clientVars == <<auth, page>>

vars == <<rooms, reviews, call, clock, ret, started, snapOf, staleKeys,
          recompute, favorites, op, nextRoom, out, auth, page>>

\* ---------------------------------------------------------------- helpers
\* The locals of one invocation; replaced and docsBefore are history: whether
\* its review write replaced a document, and how many the room had before it.
Idle == [pc |-> "idle", uid |-> NoUser, roomId |-> "", rating |-> 0,
         total |-> 0, count |-> 0, snap |-> 0, replaced |-> FALSE, docsBefore |-> 0]

\* What the caller of addReview observes when it returns.  healed (the
\* reviews whose failed summary write this call made up for) and repeat (this
\* recomputation and the one before it read the same reviews) are history.
NoRet == [result |-> "none", uid |-> NoUser, roomId |-> "", rating |-> 0,
          replaced |-> FALSE, docsBefore |-> 0, healed |-> {}, repeat |-> FALSE]

Return(result, c) ==
    [NoRet EXCEPT !.result = result, !.uid = c.uid, !.roomId = c.roomId,
                  !.rating = c.rating, !.replaced = c.replaced,
                  !.docsBefore = c.docsBefore]

\* A roomData argument that carries none of the fields the model follows.
NoRoomData == [owner |-> Undefined, ownerName |-> Undefined, createdAt |-> Absent,
               rating |-> Absent]

\* The locals of one updateRoom or deleteRoom call between its getDoc and its
\* write (data is the roomData argument of updateRoom), or of one
\* getFavorites call: ids are the favoriteIds still to look up, found the
\* rooms pushed so far.
IdleOp == [pc |-> "idle", fn |-> "", uid |-> NoUser, id |-> "",
           data |-> NoRoomData, ids |-> {}, found |-> <<>>]

\* What the caller of a room or favorite function observes when it returns.
\* rooms is the array getFavorites returns, by room id.  wrote (a write or
\* delete of the call changed the store), before (the rooms the caller had
\* as favorites when a favorite call began) and data (the roomData argument
\* of addRoom) are history.
NoOut == [fn |-> "", result |-> "none", uid |-> NoUser, id |-> "", wrote |-> FALSE,
          before |-> {}, rooms |-> <<>>, data |-> NoRoomData]

\* updateRoomRating before its first review: totalRating = 0, reviewCount = 0.
NoRecompute == [pc |-> "forEach", totalRating |-> 0, reviewCount |-> 0,
                rating |-> Absent, reviews |-> Absent]

\* localStorage has no "currentUser" item.
NoRecord == [exists |-> FALSE, uid |-> NoUser, isGuest |-> FALSE]

\* A slot of AuthProvider without a call in flight; valid tells whether the
\* arguments of signIn or signUp pass the validation of the mock.
NoAuthCall == [fn |-> "", valid |-> TRUE]

\* AuthProvider before its mount effect: useState(null), useState(true),
\* useState(false), and localStorage empty.  currentUser is auth.currentUser
\* of the authentication provider (what getCurrentUser() returns); done is
\* the call that ended in the last step and how.
NoAuth == [user |-> NoUser, loading |-> TRUE, isGuest |-> FALSE, mounted |-> FALSE,
           stored |-> NoRecord, pending |-> [p \in Slots |-> NoAuthCall],
           currentUser |-> NoUser, done |-> [fn |-> "", result |-> "none"]]

\* No room is loaded on the room page.
NoRoomLoaded == "null"

\* The pages before any handler ran.  favorites is the dashboard's list and
\* listed tells whether its room list was reloaded after a change; room,
\* isFavorite and inquiryForm are the room page's; roomDetails is the
\* dashboard's form.  handler (the handler that ran in the last step), toast
\* (the title it showed) and called (the service functions it called) are
\* cleared by every other step.
NoPage == [handler |-> "", toast |-> "", called |-> {},
           favorites |-> {}, listed |-> FALSE, roomDetails |-> "empty",
           room |-> NoRoomLoaded, isFavorite |-> FALSE, inquiryForm |-> "empty"]

AllIdle == \A p \in Slots : call[p].pc = "idle"

\* A new invocation takes the first free slot (the slots are interchangeable).
FreeSlot(p) == call[p].pc = "idle" /\ \A q \in Slots : q < p => call[q].pc # "idle"

RoomReviews_AllRooms(roomId) == {k \in ReviewKeys : reviews[k].exists}

\* query(collection(db, "reviews"), where("roomId", "==", roomId))
RoomReviews(roomId) ==
    {k \in ReviewKeys : reviews[k].exists /\ reviews[k].roomId = roomId}

RECURSIVE SumRatings(_)
SumRatings(keys) ==
    IF keys = {} THEN 0
    ELSE LET k == CHOOSE x \in keys : TRUE
         IN reviews[k].rating + SumRatings(keys \ {k})

\* Server time of the latest review write for the room, 0 when it has none.
LastReviewWrite(roomId) ==
    LET times == {reviews[k].updatedAt :
                    k \in {x \in ReviewKeys : reviews[x].exists /\ reviews[x].roomId = roomId}}
    IN IF times = {} THEN 0 ELSE CHOOSE t \in times : \A u \in times : u <= t

\* k/20 for odd k: the values whose second decimal is an exact tie.  The ones
\* below are those whose nearest double lies above k/20 or is k/20 itself
\* (k a multiple of 5); for the others the double lies below.
TieRoundsUp ==
    {1, 9, 11, 13, 21, 27, 31, 37, 47, 49, 57, 59, 67, 69, 77, 79, 83, 89, 93, 99,
     103, 109, 113, 119, 123, 129, 133, 139}
    \cup {k \in 1..139 : k % 10 = 5}

\* Number.parseFloat((total / count).toFixed(1)), in tenths: the multiple of
\* 0.1 nearest to the double total / count, the larger one when both are
\* equally near.
ToFixed1(total, count) ==
    LET k == (20 * total) \div count
    IN IF (20 * total) % count = 0 /\ k % 2 = 1
       THEN IF k \in TieRoundsUp THEN (k + 1) \div 2 ELSE (k - 1) \div 2
       ELSE (20 * total + count) \div (2 * count)

averageRating_Floor(total, count) == IF count > 0 THEN 10 * (total \div count) ELSE 0

\* reviewCount > 0 ? totalRating / reviewCount : 0, then toFixed(1)
averageRating(total, count) == IF count > 0 THEN ToFixed1(total, count) ELSE 0

\* ------------------------------------------------------------------- Init
\* Both rooms were created by addRoom from a form that carries no rating or
\* review count; nobody has reviewed yet.
Init ==
    /\ rooms = [r \in RoomIds |->
                  [exists |-> TRUE, owner |-> "u1", ownerName |-> "Anonymous", rating |-> Absent,
                   reviews |-> Absent, createdAt |-> 0, updatedAt |-> 0]]
    /\ reviews = [k \in ReviewKeys |-> NoDoc]
    /\ call = [p \in Slots |-> Idle]
    /\ clock = 1
    /\ ret = NoRet
    /\ started = 0
    /\ snapOf = [r \in RoomIds |-> 0]
    /\ staleKeys = {}
    /\ recompute = NoRecompute
    /\ favorites = [k \in FavoriteKeys |-> NoDoc]
    /\ op = [p \in Slots |-> IdleOp]
    /\ nextRoom = Cardinality(RoomIds) + 1
    /\ out = NoOut
    /\ auth = NoAuth
    /\ page = NoPage

\* ---------------------------------------------------------------- actions
Authenticated_Unchecked(user) == TRUE

\* const user = getCurrentUser(); if (!user) throw new Error(...)
Authenticated(user) == user # NoUser

\* addReview while getCurrentUser() is null: throws before the first remote
\* call; the catch block logs and re-throws.
addReviewUnauthenticated(user) ==
    /\ ~Authenticated(user)
    /\ started < MaxCalls
    /\ started' = started + 1
    /\ ret' = [NoRet EXCEPT !.result = "authError"]
    /\ UNCHANGED <<rooms, reviews, call, clock, snapOf, staleKeys>>

addReviewSetDoc_Clamped(p, user, roomId, rating, comment) ==
    LET k == ReviewKey(user, roomId)
        stars == IF rating < 1 THEN 1 ELSE IF rating > 5 THEN 5 ELSE rating
    IN /\ Authenticated(user)
       /\ FreeSlot(p)
       /\ started < MaxCalls
       /\ reviews' = [reviews EXCEPT ![k] =
                        [exists |-> TRUE, userId |-> user, roomId |-> roomId,
                         userName |-> IF displayName(user) # ""
                                      THEN displayName(user) ELSE "Anonymous",
                         rating |-> stars, comment |-> comment,
                         createdAt |-> clock, updatedAt |-> clock]]
       /\ clock' = clock + 1
       /\ started' = started + 1
       /\ call' = [call EXCEPT ![p] =
                     [Idle EXCEPT !.pc = "getDocs", !.uid = user,
                                  !.roomId = roomId, !.rating = rating,
                                  !.replaced = reviews[k].exists,
                                  !.docsBefore =
                                      Cardinality({x \in ReviewKeys : reviews[x].exists
                                                      /\ reviews[x].roomId = roomId})]]
       /\ ret' = NoRet
       /\ UNCHANGED <<rooms, snapOf, staleKeys>>

\* addReview up to the commit of setDoc(reviewRef, {...}): the review
\* document is created or replaced as a whole.
addReviewSetDoc(p, user, roomId, rating, comment) ==
    LET k == ReviewKey(user, roomId)
    IN /\ Authenticated(user)
       /\ FreeSlot(p)
       /\ started < MaxCalls
       /\ reviews' = [reviews EXCEPT ![k] =
                        [exists |-> TRUE, userId |-> user, roomId |-> roomId,
                         userName |-> IF displayName(user) # ""
                                      THEN displayName(user) ELSE "Anonymous",
                         rating |-> rating, comment |-> comment,
                         createdAt |-> clock, updatedAt |-> clock]]
       /\ clock' = clock + 1
       /\ started' = started + 1
       /\ call' = [call EXCEPT ![p] =
                     [Idle EXCEPT !.pc = "getDocs", !.uid = user,
                                  !.roomId = roomId, !.rating = rating,
                                  !.replaced = reviews[k].exists,
                                  !.docsBefore =
                                      Cardinality({x \in ReviewKeys : reviews[x].exists
                                                      /\ reviews[x].roomId = roomId})]]
       /\ ret' = NoRet
       /\ UNCHANGED <<rooms, snapOf, staleKeys>>

addReviewSetDocFails_Swallowed(p, user, roomId) ==
    /\ Authenticated(user)
    /\ FreeSlot(p)
    /\ started < MaxCalls
    /\ started' = started + 1
    /\ call' = [call EXCEPT ![p] =
                  [Idle EXCEPT !.pc = "getDocs", !.uid = user, !.roomId = roomId]]
    /\ ret' = NoRet
    /\ UNCHANGED <<rooms, reviews, clock, snapOf, staleKeys>>

\* setDoc rejects (network, permission): caught, logged, re-thrown.  The
\* rating and the comment play no part in it.
addReviewSetDocFails(p, user, roomId) ==
    /\ Authenticated(user)
    /\ FreeSlot(p)
    /\ started < MaxCalls
    /\ started' = started + 1
    /\ ret' = [NoRet EXCEPT !.result = "writeError"]
    /\ UNCHANGED <<rooms, reviews, call, clock, snapOf, staleKeys>>

\* updateRoomRating: getDocs(reviewsQuery) answers and the forEach loop sums.
getDocsReviews(p) ==
    LET c == call[p]
        docs == RoomReviews(c.roomId)
    IN /\ c.pc = "getDocs"
       /\ call' = [call EXCEPT ![p] =
                     [c EXCEPT !.pc = "updateDoc", !.total = SumRatings(docs),
                               !.count = Cardinality(docs), !.snap = clock]]
       /\ ret' = NoRet
       /\ UNCHANGED <<rooms, reviews, clock, started, snapOf, staleKeys>>

getDocsReviewsFails_AsEmpty(p) ==
    LET c == call[p]
    IN /\ c.pc = "getDocs"
       /\ rooms' = [rooms EXCEPT ![c.roomId] = [@ EXCEPT !.rating = 0, !.reviews = 0]]
       /\ call' = [call EXCEPT ![p] = Idle]
       /\ ret' = Return("readError", c)
       /\ UNCHANGED <<reviews, clock, started, snapOf, staleKeys>>

\* getDocs rejects: updateRoomRating and addReview re-throw.
getDocsReviewsFails(p) ==
    /\ call[p].pc = "getDocs"
    /\ call' = [call EXCEPT ![p] = Idle]
    /\ ret' = Return("readError", call[p])
    /\ UNCHANGED <<rooms, reviews, clock, started, snapOf, staleKeys>>

updateDocRoom_Increment(p) ==
    LET c == call[p]
        r == c.roomId
    IN /\ c.pc = "updateDoc"
       /\ rooms[r].exists
       /\ rooms' = [rooms EXCEPT ![r] =
                      [@ EXCEPT !.rating = averageRating(c.total, c.count),
                                !.reviews = IF @ = Absent THEN 1 ELSE @ + 1,
                                !.updatedAt = clock]]
       /\ clock' = clock + 1
       /\ snapOf' = [snapOf EXCEPT ![r] = c.snap]
       /\ staleKeys' = {k \in staleKeys : reviews[k].roomId # r}
       /\ call' = [call EXCEPT ![p] = Idle]
       /\ ret' = [Return("ok", c) EXCEPT
                     !.healed = {k \in staleKeys : reviews[k].roomId = r},
                     !.repeat = snapOf[r] > LastReviewWrite(r) /\ c.snap > LastReviewWrite(r)]
       /\ UNCHANGED <<reviews, started>>

\* await updateDoc(roomRef, {rating, reviews, updatedAt}) commits; both
\* functions return and addReview resolves to {success: true}.
updateDocRoom(p) ==
    LET c == call[p]
        r == c.roomId
    IN /\ c.pc = "updateDoc"
       /\ rooms[r].exists
       /\ rooms' = [rooms EXCEPT ![r] =
                      [@ EXCEPT !.rating = averageRating(c.total, c.count),
                                !.reviews = c.count,
                                !.updatedAt = clock]]
       /\ clock' = clock + 1
       /\ snapOf' = [snapOf EXCEPT ![r] = c.snap]
       /\ staleKeys' = {k \in staleKeys : reviews[k].roomId # r}
       /\ call' = [call EXCEPT ![p] = Idle]
       /\ ret' = [Return("ok", c) EXCEPT
                     !.healed = {k \in staleKeys : reviews[k].roomId = r},
                     !.repeat = snapOf[r] > LastReviewWrite(r) /\ c.snap > LastReviewWrite(r)]
       /\ UNCHANGED <<reviews, started>>

updateDocRoomFails_Rollback(p) ==
    /\ call[p].pc = "updateDoc"
    /\ reviews' = [reviews EXCEPT ![ReviewKey(call[p].uid, call[p].roomId)] = NoDoc]
    /\ call' = [call EXCEPT ![p] = Idle]
    /\ ret' = Return("updateError", call[p])
    /\ UNCHANGED <<rooms, clock, started, snapOf, staleKeys>>

updateDocRoomFails_Swallowed(p) ==
    /\ call[p].pc = "updateDoc"
    /\ call' = [call EXCEPT ![p] = Idle]
    /\ ret' = Return("ok", call[p])
    /\ staleKeys' = staleKeys \cup {ReviewKey(call[p].uid, call[p].roomId)}
    /\ UNCHANGED <<rooms, reviews, clock, started, snapOf>>

\* updateDoc rejects (network, permission, or no such room document).
updateDocRoomFails(p) ==
    /\ call[p].pc = "updateDoc"
    /\ call' = [call EXCEPT ![p] = Idle]
    /\ ret' = Return("updateError", call[p])
    /\ staleKeys' = staleKeys \cup {ReviewKey(call[p].uid, call[p].roomId)}
    /\ UNCHANGED <<rooms, reviews, clock, started, snapOf>>

\* ------------------------------------------------------ the specifications
Next ==
    \/ \E u \in Users : addReviewUnauthenticated(u)
          /\ UNCHANGED <<layerVars, clientVars>>
    \/ \E p \in Slots, u \in Users, r \in RoomIds, n \in Ratings, t \in Comments :
          addReviewSetDoc(p, u, r, n, t)
          /\ UNCHANGED <<layerVars, clientVars>>
    \/ \E p \in Slots, u \in Users, r \in RoomIds : addReviewSetDocFails(p, u, r)
          /\ UNCHANGED <<layerVars, clientVars>>
    \/ \E p \in Slots : getDocsReviews(p)
          /\ UNCHANGED <<layerVars, clientVars>>
    \/ \E p \in Slots : getDocsReviewsFails(p)
          /\ UNCHANGED <<layerVars, clientVars>>
    \/ \E p \in Slots : updateDocRoom(p)
          /\ UNCHANGED <<layerVars, clientVars>>
    \/ \E p \in Slots : updateDocRoomFails(p)
          /\ UNCHANGED <<layerVars, clientVars>>

\* Any interleaving of the calls, any remote call may fail.
Spec == Init /\ [][Next]_vars

\* One addReview at a time: a call starts only when none is in flight.
NextSeq ==
    \/ \E u \in Users : AllIdle /\ addReviewUnauthenticated(u)
          /\ UNCHANGED <<layerVars, clientVars>>
    \/ \E p \in Slots, u \in Users, r \in RoomIds, n \in Ratings, t \in Comments :
          AllIdle /\ addReviewSetDoc(p, u, r, n, t)
          /\ UNCHANGED <<layerVars, clientVars>>
    \/ \E p \in Slots, u \in Users, r \in RoomIds : AllIdle /\ addReviewSetDocFails(p, u, r)
          /\ UNCHANGED <<layerVars, clientVars>>
    \/ \E p \in Slots : getDocsReviews(p)
          /\ UNCHANGED <<layerVars, clientVars>>
    \/ \E p \in Slots : getDocsReviewsFails(p)
          /\ UNCHANGED <<layerVars, clientVars>>
    \/ \E p \in Slots : updateDocRoom(p)
          /\ UNCHANGED <<layerVars, clientVars>>
    \/ \E p \in Slots : updateDocRoomFails(p)
          /\ UNCHANGED <<layerVars, clientVars>>

SpecSeq == Init /\ [][NextSeq]_vars

\* Any interleaving of the calls of signed-in users, no remote call fails.
NextNoFail ==
    \/ \E p \in Slots, u \in Users, r \in RoomIds, n \in Ratings, t \in Comments :
          addReviewSetDoc(p, u, r, n, t)
          /\ UNCHANGED <<layerVars, clientVars>>
    \/ \E p \in Slots : getDocsReviews(p)
          /\ UNCHANGED <<layerVars, clientVars>>
    \/ \E p \in Slots : updateDocRoom(p)
          /\ UNCHANGED <<layerVars, clientVars>>

SpecNoFail == Init /\ [][NextNoFail]_vars

\* The rating argument is a number: 3 is within 1..5, 0 and 9 are not.
RatingArgs == {0, 3, 9}

\* One addReview at a time, with any number as the rating.
NextAnyRating ==
    \/ \E u \in Users : AllIdle /\ addReviewUnauthenticated(u)
          /\ UNCHANGED <<layerVars, clientVars>>
    \/ \E p \in Slots, u \in Users, r \in RoomIds, n \in RatingArgs, t \in Comments :
          AllIdle /\ addReviewSetDoc(p, u, r, n, t)
          /\ UNCHANGED <<layerVars, clientVars>>
    \/ \E p \in Slots, u \in Users, r \in RoomIds : AllIdle /\ addReviewSetDocFails(p, u, r)
          /\ UNCHANGED <<layerVars, clientVars>>
    \/ \E p \in Slots : getDocsReviews(p)
          /\ UNCHANGED <<layerVars, clientVars>>
    \/ \E p \in Slots : getDocsReviewsFails(p)
          /\ UNCHANGED <<layerVars, clientVars>>
    \/ \E p \in Slots : updateDocRoom(p)
          /\ UNCHANGED <<layerVars, clientVars>>
    \/ \E p \in Slots : updateDocRoomFails(p)
          /\ UNCHANGED <<layerVars, clientVars>>

SpecAnyRating == Init /\ [][NextAnyRating]_vars

\* ------------------------------------- updateRoomRating on a query result
\* querySnapshot.forEach: one more review of the result is added to
\* totalRating and counted.
forEachReview(rating) ==
    /\ recompute.pc = "forEach"
    /\ recompute.reviewCount < MaxReviews
    /\ recompute' = [recompute EXCEPT !.totalRating = @ + rating,
                                      !.reviewCount = @ + 1]
    /\ UNCHANGED <<favorites, op, nextRoom, out>>
    /\ UNCHANGED reviewVars

\* The loop is over: averageRating is computed and rating and reviews of the
\* updateDoc payload are set.
updateDocPayload ==
    /\ recompute.pc = "forEach"
    /\ recompute' = [recompute EXCEPT
                       !.pc = "done",
                       !.rating = averageRating(recompute.totalRating, recompute.reviewCount),
                       !.reviews = recompute.reviewCount]
    /\ UNCHANGED <<favorites, op, nextRoom, out>>
    /\ UNCHANGED reviewVars

NextRating ==
    \/ \E n \in Stars : forEachReview(n) /\ UNCHANGED clientVars
    \/ updateDocPayload /\ UNCHANGED clientVars

\* updateRoomRating on every query result of up to MaxReviews reviews.
SpecRating == Init /\ [][NextRating]_vars

\* ------------------------------------------- rooms, favorites and reads
\* The roomData arguments: the form's fields alone (no owner, no rating), or
\* with a rating among them, or with the owner, ownerName and createdAt of a
\* room object among them.
RoomDataArgs ==
    {NoRoomData, [NoRoomData EXCEPT !.rating = 48]}
    \cup {[NoRoomData EXCEPT !.owner = o, !.ownerName = "owner-" \o o, !.createdAt = 0] :
             o \in Uids}

\* A new room or favorite call that holds a slot takes the first free one.
FreeOpSlot(p) == op[p].pc = "idle" /\ \A q \in Slots : q < p => op[q].pc # "idle"

\* The result of a room or favorite function.
Out(fn, result, uid, id, wrote) ==
    [NoOut EXCEPT !.fn = fn, !.result = result, !.uid = uid, !.id = id, !.wrote = wrote]

\* What a step of a room or favorite function leaves alone of the reviews.
ReviewsUntouched ==
    /\ ret' = NoRet
    /\ UNCHANGED <<reviews, call, snapOf, staleKeys, recompute>>

\* A function that acts for a user while getCurrentUser() is null: throws
\* "User not authenticated" before its first remote call.
failsUnauthenticated(fn, user) ==
    /\ fn \in ActingFns
    /\ ~Authenticated(user)
    /\ out' = Out(fn, "authError", user, "", FALSE)
    /\ ReviewsUntouched
    /\ started < MaxCalls
    /\ started' = started + 1
    /\ UNCHANGED <<rooms, clock, favorites, op, nextRoom>>

addRoom_SpreadLast(user, roomData) ==
    LET id == "r" \o ToString(nextRoom)
    IN /\ Authenticated(user)
       /\ id \in RoomIds
       /\ rooms' = [rooms EXCEPT ![id] =
                      [exists |-> TRUE,
                       owner |-> IF roomData.owner # Undefined THEN roomData.owner ELSE user,
                       ownerName |-> IF roomData.ownerName # Undefined
                                     THEN roomData.ownerName
                                     ELSE IF displayName(user) # "" THEN displayName(user)
                                          ELSE "Anonymous",
                       rating |-> roomData.rating,
                       reviews |-> Absent,
                       createdAt |-> IF roomData.createdAt # Absent
                                     THEN roomData.createdAt ELSE clock,
                       updatedAt |-> clock]]
       /\ nextRoom' = nextRoom + 1
       /\ clock' = clock + 1
       /\ out' = [Out("addRoom", "ok", user, id, TRUE) EXCEPT !.data = roomData]
       /\ ReviewsUntouched
       /\ started < MaxCalls
       /\ started' = started + 1
       /\ UNCHANGED <<favorites, op>>

\* addRoom: addDoc commits a document under a generated id; owner, ownerName,
\* createdAt and updatedAt are set after the fields of roomData, so they
\* replace what roomData carries under these names.
addRoom(user, roomData) ==
    LET id == "r" \o ToString(nextRoom)
    IN /\ Authenticated(user)
       /\ id \in RoomIds
       /\ rooms' = [rooms EXCEPT ![id] =
                      [exists |-> TRUE,
                       owner |-> user,
                       ownerName |-> IF displayName(user) # "" THEN displayName(user)
                                     ELSE "Anonymous",
                       rating |-> roomData.rating,
                       reviews |-> Absent,
                       createdAt |-> clock,
                       updatedAt |-> clock]]
       /\ nextRoom' = nextRoom + 1
       /\ clock' = clock + 1
       /\ out' = [Out("addRoom", "ok", user, id, TRUE) EXCEPT !.data = roomData]
       /\ ReviewsUntouched
       /\ started < MaxCalls
       /\ started' = started + 1
       /\ UNCHANGED <<favorites, op>>

\* addDoc rejects.
addRoomFails(user) ==
    /\ Authenticated(user)
    /\ out' = Out("addRoom", "storeError", user, "", FALSE)
    /\ ReviewsUntouched
    /\ started < MaxCalls
    /\ started' = started + 1
    /\ UNCHANGED <<rooms, clock, favorites, op, nextRoom>>

\* updateRoom or deleteRoom: getDoc answers that the room has no document.
roomNotFound(fn, user, id) ==
    /\ fn \in {"updateRoom", "deleteRoom"}
    /\ Authenticated(user)
    /\ ~rooms[id].exists
    /\ out' = Out(fn, "notFound", user, id, FALSE)
    /\ ReviewsUntouched
    /\ started < MaxCalls
    /\ started' = started + 1
    /\ UNCHANGED <<rooms, clock, favorites, op, nextRoom>>

\* roomSnap.data().owner !== user.uid
IsOwner(user, id) == rooms[id].owner = user

\* updateRoom or deleteRoom: getDoc answers with a room of another owner.
roomNotAuthorized(fn, user, id) ==
    /\ fn \in {"updateRoom", "deleteRoom"}
    /\ Authenticated(user)
    /\ rooms[id].exists
    /\ ~IsOwner(user, id)
    /\ out' = Out(fn, "notAuthorized", user, id, FALSE)
    /\ ReviewsUntouched
    /\ started < MaxCalls
    /\ started' = started + 1
    /\ UNCHANGED <<rooms, clock, favorites, op, nextRoom>>

\* updateRoom or deleteRoom: getDoc rejects.
roomGetDocFails(fn, user, id) ==
    /\ fn \in {"updateRoom", "deleteRoom"}
    /\ Authenticated(user)
    /\ out' = Out(fn, "storeError", user, id, FALSE)
    /\ ReviewsUntouched
    /\ started < MaxCalls
    /\ started' = started + 1
    /\ UNCHANGED <<rooms, clock, favorites, op, nextRoom>>

\* updateRoom up to the answer of getDoc: the room exists and its owner is
\* the caller; the write is still to be issued.
updateRoomGetDoc(p, user, id, roomData) ==
    /\ Authenticated(user)
    /\ FreeOpSlot(p)
    /\ started < MaxCalls
    /\ rooms[id].exists
    /\ IsOwner(user, id)
    /\ op' = [op EXCEPT ![p] = [IdleOp EXCEPT !.pc = "updateDoc", !.fn = "updateRoom",
                                              !.uid = user, !.id = id,
                                              !.data = roomData]]
    /\ started' = started + 1
    /\ out' = NoOut
    /\ ReviewsUntouched
    /\ UNCHANGED <<rooms, clock, favorites, nextRoom>>

\* updateDoc(roomRef, {...roomData, updatedAt}) commits: the fields roomData
\* carries replace the stored ones.
updateRoomUpdateDoc(p) ==
    LET c == op[p]
    IN /\ c.pc = "updateDoc"
       /\ rooms[c.id].exists
       /\ rooms' = [rooms EXCEPT ![c.id] =
                      [@ EXCEPT !.owner = IF c.data.owner # Undefined
                                          THEN c.data.owner ELSE @,
                                !.ownerName = IF c.data.ownerName # Undefined
                                              THEN c.data.ownerName ELSE @,
                                !.createdAt = IF c.data.createdAt # Absent
                                              THEN c.data.createdAt ELSE @,
                                !.rating = IF c.data.rating # Absent
                                           THEN c.data.rating ELSE @,
                                !.updatedAt = clock]]
       /\ clock' = clock + 1
       /\ op' = [op EXCEPT ![p] = IdleOp]
       /\ out' = Out("updateRoom", "ok", c.uid, c.id, TRUE)
       /\ ReviewsUntouched
       /\ UNCHANGED <<started, favorites, nextRoom>>

\* updateDoc rejects (network, permission, or the document is gone).
updateRoomUpdateDocFails(p) ==
    /\ op[p].pc = "updateDoc"
    /\ op' = [op EXCEPT ![p] = IdleOp]
    /\ out' = Out("updateRoom", "storeError", op[p].uid, op[p].id, FALSE)
    /\ ReviewsUntouched
    /\ UNCHANGED <<rooms, clock, started, favorites, nextRoom>>

\* deleteRoom up to the answer of getDoc, as in updateRoom.
deleteRoomGetDoc(p, user, id) ==
    /\ Authenticated(user)
    /\ FreeOpSlot(p)
    /\ started < MaxCalls
    /\ rooms[id].exists
    /\ IsOwner(user, id)
    /\ op' = [op EXCEPT ![p] = [IdleOp EXCEPT !.pc = "deleteDoc", !.fn = "deleteRoom",
                                              !.uid = user, !.id = id]]
    /\ started' = started + 1
    /\ out' = NoOut
    /\ ReviewsUntouched
    /\ UNCHANGED <<rooms, clock, favorites, nextRoom>>

deleteRoomDeleteDoc_Cascade(p) ==
    LET c == op[p]
    IN /\ c.pc = "deleteDoc"
       /\ rooms' = [rooms EXCEPT ![c.id] = NoRoom]
       /\ reviews' = [k \in ReviewKeys |->
                        IF reviews[k].exists /\ reviews[k].roomId = c.id
                        THEN NoDoc ELSE reviews[k]]
       /\ op' = [op EXCEPT ![p] = IdleOp]
       /\ out' = Out("deleteRoom", "ok", c.uid, c.id, rooms[c.id].exists)
       /\ ret' = NoRet
       /\ UNCHANGED <<call, snapOf, staleKeys, recompute>>
       /\ UNCHANGED <<clock, started, favorites, nextRoom>>

\* deleteDoc(roomRef) commits: the room document is gone (deleting a document
\* that is already gone succeeds too); nothing else is deleted.
deleteRoomDeleteDoc(p) ==
    LET c == op[p]
    IN /\ c.pc = "deleteDoc"
       /\ rooms' = [rooms EXCEPT ![c.id] = NoRoom]
       /\ op' = [op EXCEPT ![p] = IdleOp]
       /\ out' = Out("deleteRoom", "ok", c.uid, c.id, rooms[c.id].exists)
       /\ ReviewsUntouched
       /\ UNCHANGED <<clock, started, favorites, nextRoom>>

\* deleteDoc rejects.
deleteRoomDeleteDocFails(p) ==
    /\ op[p].pc = "deleteDoc"
    /\ op' = [op EXCEPT ![p] = IdleOp]
    /\ out' = Out("deleteRoom", "storeError", op[p].uid, op[p].id, FALSE)
    /\ ReviewsUntouched
    /\ UNCHANGED <<rooms, clock, started, favorites, nextRoom>>

\* query(collection(db, "favorites"), where("userId", "==", user.uid)): the
\* room ids of the user's favorite documents.
FavoriteIds(user) ==
    {favorites[k].roomId : k \in {x \in FavoriteKeys :
                                     favorites[x].exists /\ favorites[x].userId = user}}

\* addFavorite: setDoc(favoriteRef, {userId, roomId, createdAt}) commits; the
\* room id is not looked up.
addFavorite(user, roomId) ==
    /\ Authenticated(user)
    /\ started < MaxCalls
    /\ favorites' = [favorites EXCEPT ![FavoriteKey(user, roomId)] =
                       [exists |-> TRUE, userId |-> user, roomId |-> roomId,
                        createdAt |-> clock]]
    /\ clock' = clock + 1
    /\ started' = started + 1
    /\ out' = [Out("addFavorite", "ok", user, roomId, TRUE) EXCEPT
                  !.before = FavoriteIds(user)]
    /\ ReviewsUntouched
    /\ UNCHANGED <<rooms, op, nextRoom>>

removeFavorite_ByRoom(user, roomId) ==
    /\ Authenticated(user)
    /\ started < MaxCalls
    /\ favorites' = [k \in FavoriteKeys |->
                       IF favorites[k].exists /\ favorites[k].roomId = roomId
                       THEN NoDoc ELSE favorites[k]]
    /\ started' = started + 1
    /\ out' = [Out("removeFavorite", "ok", user, roomId,
                   favorites[FavoriteKey(user, roomId)].exists) EXCEPT
                  !.before = FavoriteIds(user)]
    /\ ReviewsUntouched
    /\ UNCHANGED <<rooms, clock, op, nextRoom>>

\* removeFavorite: deleteDoc(favoriteRef) commits, whether or not the
\* document was there.
removeFavorite(user, roomId) ==
    /\ Authenticated(user)
    /\ started < MaxCalls
    /\ favorites' = [favorites EXCEPT ![FavoriteKey(user, roomId)] = NoDoc]
    /\ started' = started + 1
    /\ out' = [Out("removeFavorite", "ok", user, roomId,
                   favorites[FavoriteKey(user, roomId)].exists) EXCEPT
                  !.before = FavoriteIds(user)]
    /\ ReviewsUntouched
    /\ UNCHANGED <<rooms, clock, op, nextRoom>>

\* setDoc or deleteDoc of a favorite rejects.
favoriteFails(fn, user, roomId) ==
    /\ fn \in {"addFavorite", "removeFavorite"}
    /\ Authenticated(user)
    /\ out' = [Out(fn, "storeError", user, roomId, FALSE) EXCEPT
                  !.before = FavoriteIds(user)]
    /\ ReviewsUntouched
    /\ started < MaxCalls
    /\ started' = started + 1
    /\ UNCHANGED <<rooms, clock, favorites, op, nextRoom>>

\* getAllRooms and getRoomById: no getCurrentUser(); getRoomById throws "Room
\* not found" for an id with no document.
readsPublic(fn, user, id) ==
    /\ \/ fn = "getAllRooms" /\ id = ""
       \/ fn = "getRoomById" /\ id \in RoomIds
    /\ out' = Out(fn, IF fn = "getRoomById" /\ ~rooms[id].exists THEN "notFound" ELSE "ok",
                  user, id, FALSE)
    /\ ReviewsUntouched
    /\ started < MaxCalls
    /\ started' = started + 1
    /\ UNCHANGED <<rooms, clock, favorites, op, nextRoom>>

\* getFavorites up to the answer of the favorites query: favoriteIds holds
\* the room id of each favorite document of the caller.
getFavoritesGetDocs(p, user) ==
    /\ Authenticated(user)
    /\ FreeOpSlot(p)
    /\ started < MaxCalls
    /\ op' = [op EXCEPT ![p] = [IdleOp EXCEPT !.pc = "getRoomById", !.fn = "getFavorites",
                                              !.uid = user, !.ids = FavoriteIds(user)]]
    /\ started' = started + 1
    /\ out' = NoOut
    /\ ReviewsUntouched
    /\ UNCHANGED <<rooms, clock, favorites, nextRoom>>

getFavoritesGetRoomById_NoCatch(p) ==
    LET c == op[p]
    IN /\ c.pc = "getRoomById"
       /\ \E id \in c.ids :
             IF id \in RoomIds /\ rooms[id].exists
             THEN /\ op' = [op EXCEPT ![p].ids = @ \ {id},
                                      ![p].found = Append(@, id)]
                  /\ out' = NoOut
             ELSE /\ op' = [op EXCEPT ![p] = IdleOp]
                  /\ out' = Out("getFavorites", "notFound", c.uid, id, FALSE)
       /\ ReviewsUntouched
       /\ UNCHANGED <<rooms, clock, started, favorites, nextRoom>>

\* One turn of the loop over favoriteIds: getRoomById(id) answers and the room
\* is pushed, or it throws "Room not found" and the id is passed over.
getFavoritesGetRoomById(p) ==
    LET c == op[p]
    IN /\ c.pc = "getRoomById"
       /\ \E id \in c.ids :
             op' = [op EXCEPT ![p].ids = @ \ {id},
                              ![p].found = IF id \in RoomIds /\ rooms[id].exists
                                           THEN Append(@, id) ELSE @]
       /\ out' = NoOut
       /\ ReviewsUntouched
       /\ UNCHANGED <<rooms, clock, started, favorites, nextRoom>>

\* The loop is over: getFavorites returns rooms.
getFavoritesReturn(p) ==
    LET c == op[p]
    IN /\ c.pc = "getRoomById"
       /\ c.ids = {}
       /\ op' = [op EXCEPT ![p] = IdleOp]
       /\ out' = [Out("getFavorites", "ok", c.uid, "", FALSE) EXCEPT !.rooms = c.found]
       /\ ReviewsUntouched
       /\ UNCHANGED <<rooms, clock, started, favorites, nextRoom>>

\* getRoomsByOwner answers from the store; uploadRoomImage writes the file to
\* the object storage, which holds no document.
actsForUser(fn, user) ==
    /\ fn \in {"getRoomsByOwner", "uploadRoomImage"}
    /\ Authenticated(user)
    /\ out' = [Out(fn, "ok", user, "", FALSE) EXCEPT !.before = FavoriteIds(user)]
    /\ ReviewsUntouched
    /\ started < MaxCalls
    /\ started' = started + 1
    /\ UNCHANGED <<rooms, clock, favorites, op, nextRoom>>

\* One room was created by addRoom from a form that carries no rating or
\* review count; the other id is still to be generated.  Nobody has a
\* favorite, nobody has reviewed.
InitLayerStore ==
    /\ rooms = [r \in RoomIds |->
                  IF r = "r1"
                  THEN [exists |-> TRUE, owner |-> "u1", ownerName |-> "Anonymous", rating |-> Absent,
                        reviews |-> Absent, createdAt |-> 0, updatedAt |-> 0]
                  ELSE NoRoom]
    /\ reviews = [k \in ReviewKeys |-> NoDoc]
    /\ call = [p \in Slots |-> Idle]
    /\ clock = 1
    /\ ret = NoRet
    /\ started = 0
    /\ snapOf = [r \in RoomIds |-> 0]
    /\ staleKeys = {}
    /\ recompute = NoRecompute
    /\ favorites = [k \in FavoriteKeys |-> NoDoc]
    /\ op = [p \in Slots |-> IdleOp]
    /\ nextRoom = 2
    /\ out = NoOut

InitLayer ==
    /\ InitLayerStore
    /\ auth = NoAuth
    /\ page = NoPage

\* What a step of addReview leaves alone of the rest of the layer.
LayerUntouched ==
    /\ out' = NoOut
    /\ UNCHANGED <<recompute, favorites, op, nextRoom>>

\* The room functions: any interleaving, any remote call may fail.
NextRooms ==
    \/ \E u \in Users : failsUnauthenticated("updateRoom", u) /\ UNCHANGED clientVars
    \/ \E u \in Users, d \in RoomDataArgs : addRoom(u, d) /\ UNCHANGED clientVars
    \/ \E u \in Users : addRoomFails(u) /\ UNCHANGED clientVars
    \/ \E f \in {"updateRoom", "deleteRoom"}, u \in Users, r \in RoomIds :
          roomNotFound(f, u, r) /\ UNCHANGED clientVars
    \/ \E f \in {"updateRoom", "deleteRoom"}, u \in Users, r \in RoomIds :
          roomNotAuthorized(f, u, r) /\ UNCHANGED clientVars
    \/ \E f \in {"updateRoom", "deleteRoom"}, u \in Users, r \in RoomIds :
          roomGetDocFails(f, u, r) /\ UNCHANGED clientVars
    \/ \E p \in Slots, u \in Users, r \in RoomIds, d \in RoomDataArgs :
          updateRoomGetDoc(p, u, r, d) /\ UNCHANGED clientVars
    \/ \E p \in Slots : updateRoomUpdateDoc(p) /\ UNCHANGED clientVars
    \/ \E p \in Slots : updateRoomUpdateDocFails(p) /\ UNCHANGED clientVars
    \/ \E p \in Slots, u \in Users, r \in RoomIds : deleteRoomGetDoc(p, u, r) /\ UNCHANGED clientVars
    \/ \E p \in Slots : deleteRoomDeleteDoc(p) /\ UNCHANGED clientVars
    \/ \E p \in Slots : deleteRoomDeleteDocFails(p) /\ UNCHANGED clientVars

SpecRooms == InitLayer /\ [][NextRooms]_vars

\* The favorite functions: any order of calls, any remote call may fail.
NextFavorites ==
    \/ \E u \in Users : failsUnauthenticated("addFavorite", u) /\ UNCHANGED clientVars
    \/ \E u \in Users, r \in RoomIdArgs : addFavorite(u, r) /\ UNCHANGED clientVars
    \/ \E u \in Users, r \in RoomIdArgs : removeFavorite(u, r) /\ UNCHANGED clientVars
    \/ \E f \in {"addFavorite", "removeFavorite"}, u \in Users, r \in RoomIdArgs :
          favoriteFails(f, u, r) /\ UNCHANGED clientVars

SpecFavorites == InitLayer /\ [][NextFavorites]_vars

\* No call of the layer is in flight.
Quiescent == AllIdle /\ \A p \in Slots : op[p].pc = "idle"

\* Every function of the data-access layer, called by any user or none, one
\* call at a time; no remote call fails, except the room write of
\* updateRoomRating when the room document is gone.
NextLayer ==
    \/ \E f \in ActingFns, u \in Users : Quiescent /\ failsUnauthenticated(f, u) /\ UNCHANGED clientVars
    \/ \E u \in Users, d \in RoomDataArgs : Quiescent /\ addRoom(u, d) /\ UNCHANGED clientVars
    \/ \E f \in {"updateRoom", "deleteRoom"}, u \in Users, r \in RoomIds :
          Quiescent /\ roomNotFound(f, u, r) /\ UNCHANGED clientVars
    \/ \E f \in {"updateRoom", "deleteRoom"}, u \in Users, r \in RoomIds :
          Quiescent /\ roomNotAuthorized(f, u, r) /\ UNCHANGED clientVars
    \/ \E p \in Slots, u \in Users, r \in RoomIds, d \in RoomDataArgs :
          Quiescent /\ updateRoomGetDoc(p, u, r, d) /\ UNCHANGED clientVars
    \/ \E p \in Slots : updateRoomUpdateDoc(p) /\ UNCHANGED clientVars
    \/ \E p \in Slots, u \in Users, r \in RoomIds : Quiescent /\ deleteRoomGetDoc(p, u, r) /\ UNCHANGED clientVars
    \/ \E p \in Slots : deleteRoomDeleteDoc(p) /\ UNCHANGED clientVars
    \/ \E u \in Users, r \in RoomIdArgs : Quiescent /\ addFavorite(u, r) /\ UNCHANGED clientVars
    \/ \E u \in Users, r \in RoomIdArgs : Quiescent /\ removeFavorite(u, r) /\ UNCHANGED clientVars
    \/ \E f \in PublicFns, u \in Users, r \in RoomIds \cup {""} :
          Quiescent /\ readsPublic(f, u, r) /\ UNCHANGED clientVars
    \/ \E f \in ActingFns, u \in Users : Quiescent /\ actsForUser(f, u) /\ UNCHANGED clientVars
    \/ \E p \in Slots, u \in Users : Quiescent /\ getFavoritesGetDocs(p, u) /\ UNCHANGED clientVars
    \/ \E p \in Slots : getFavoritesGetRoomById(p) /\ UNCHANGED clientVars
    \/ \E p \in Slots : getFavoritesReturn(p) /\ UNCHANGED clientVars
    \/ \E u \in Users : Quiescent /\ addReviewUnauthenticated(u) /\ LayerUntouched /\ UNCHANGED clientVars
    \/ \E p \in Slots, u \in Users, r \in RoomIds, n \in Ratings, t \in Comments :
          Quiescent /\ addReviewSetDoc(p, u, r, n, t) /\ LayerUntouched /\ UNCHANGED clientVars
    \/ \E p \in Slots : getDocsReviews(p) /\ LayerUntouched /\ UNCHANGED clientVars
    \/ \E p \in Slots : updateDocRoom(p) /\ LayerUntouched /\ UNCHANGED clientVars
    \/ \E p \in Slots :
          /\ call[p].pc = "updateDoc"
          /\ ~rooms[call[p].roomId].exists
          /\ updateDocRoomFails(p) /\ LayerUntouched /\ UNCHANGED clientVars

SpecLayer == InitLayer /\ [][NextLayer]_vars

\* The store when getFavorites is called: both rooms were created by u1, and
\* the users have any favorites among them.
InitGetFavorites ==
    /\ rooms = [r \in RoomIds |->
                  [exists |-> TRUE, owner |-> "u1", ownerName |-> "Anonymous", rating |-> Absent,
                   reviews |-> Absent, createdAt |-> 0, updatedAt |-> 0]]
    /\ reviews = [k \in ReviewKeys |-> NoDoc]
    /\ call = [p \in Slots |-> Idle]
    /\ clock = 1
    /\ ret = NoRet
    /\ started = 0
    /\ snapOf = [r \in RoomIds |-> 0]
    /\ staleKeys = {}
    /\ recompute = NoRecompute
    /\ \E pairs \in SUBSET (Uids \X RoomIds) :
          favorites = [k \in FavoriteKeys |->
                         IF \E pr \in pairs : k = FavoriteKey(pr[1], pr[2])
                         THEN LET pr == CHOOSE x \in pairs : k = FavoriteKey(x[1], x[2])
                              IN [exists |-> TRUE, userId |-> pr[1], roomId |-> pr[2],
                                  createdAt |-> 0]
                         ELSE NoDoc]
    /\ op = [p \in Slots |-> IdleOp]
    /\ nextRoom = Cardinality(RoomIds) + 1
    /\ out = NoOut
    /\ auth = NoAuth
    /\ page = NoPage

\* getFavorites among the calls that change what it reads, one call at a
\* time; no remote call fails.
NextGetFavorites ==
    \/ \E u \in Users : Quiescent /\ failsUnauthenticated("getFavorites", u) /\ UNCHANGED clientVars
    \/ \E p \in Slots, u \in Users : Quiescent /\ getFavoritesGetDocs(p, u) /\ UNCHANGED clientVars
    \/ \E p \in Slots : getFavoritesGetRoomById(p) /\ UNCHANGED clientVars
    \/ \E p \in Slots : getFavoritesReturn(p) /\ UNCHANGED clientVars
    \/ \E p \in Slots, u \in Users, r \in RoomIds : Quiescent /\ deleteRoomGetDoc(p, u, r) /\ UNCHANGED clientVars
    \/ \E p \in Slots : deleteRoomDeleteDoc(p) /\ UNCHANGED clientVars
    \/ \E u \in Users, r \in RoomIdArgs : Quiescent /\ addFavorite(u, r) /\ UNCHANGED clientVars
    \/ \E u \in Users, r \in RoomIdArgs : Quiescent /\ removeFavorite(u, r) /\ UNCHANGED clientVars

SpecGetFavorites == InitGetFavorites /\ [][NextGetFavorites]_vars

\* ------------------------------------- the auth context and the pages
\* The uids the mocks of the auth context return: mockSignIn a fixed one,
\* mockSignUp and mockSignInAsGuest one with a random suffix.
MockUid(fn) ==
    IF fn = "signIn" THEN "mock-uid-123"
    ELSE IF fn = "signUp" THEN "mock-uid-a" ELSE "guest-a"

AuthFns == {"signIn", "signUp", "signInAsGuest", "signOut"}

\* JSON.stringify({...user, isGuest}) as kept under "currentUser".
Record(uid, isGuest) == [exists |-> TRUE, uid |-> uid, isGuest |-> isGuest]

\* What an earlier session of AuthProvider can have left in localStorage.
StoredRecords ==
    {NoRecord} \cup {Record(MockUid(f), f = "signInAsGuest") : f \in AuthFns \ {"signOut"}}

NoneDone == [fn |-> "", result |-> "none"]

\* The handler, toast and calls of the last step are over.
ClearEvents(pg) == [pg EXCEPT !.handler = "", !.toast = "", !.called = {}]

\* What a step inside the client leaves alone of the store.
StoreUntouched ==
    /\ out' = NoOut
    /\ ret' = NoRet
    /\ UNCHANGED <<rooms, reviews, call, clock, snapOf, staleKeys, recompute,
                   favorites, op, nextRoom>>

\* A new call of AuthProvider takes the first free slot.
FreeAuthSlot(p) ==
    /\ auth.pending[p] = NoAuthCall
    /\ \A q \in Slots : q < p => auth.pending[q] # NoAuthCall

NoAuthCallPending == \A p \in Slots : auth.pending[p] = NoAuthCall

\* The mount effect of AuthProvider: a stored user is parsed and becomes the
\* user, isGuest is parsedUser.isGuest || false, then setLoading(false).
mountEffect ==
    /\ ~auth.mounted
    /\ auth' = [auth EXCEPT
                  !.mounted = TRUE,
                  !.loading = FALSE,
                  !.user = IF auth.stored.exists THEN auth.stored.uid ELSE @,
                  !.isGuest = IF auth.stored.exists THEN auth.stored.isGuest ELSE @,
                  !.done = NoneDone]
    /\ page' = ClearEvents(page)
    /\ StoreUntouched
    /\ UNCHANGED started

\* signIn, signUp, signInAsGuest or signOut up to the await of its mock:
\* setLoading(true).
authCall(p, fn, valid) ==
    /\ auth.mounted
    /\ FreeAuthSlot(p)
    /\ fn \in AuthFns
    /\ fn \in {"signInAsGuest", "signOut"} => valid
    /\ started < MaxCalls
    /\ started' = started + 1
    /\ auth' = [auth EXCEPT !.loading = TRUE,
                            !.pending[p] = [fn |-> fn, valid |-> valid],
                            !.done = NoneDone]
    /\ page' = ClearEvents(page)
    /\ StoreUntouched

signInResolves_KeepsGuest(p) ==
    LET c == auth.pending[p]
    IN /\ c.fn \in {"signIn", "signUp", "signInAsGuest"}
       /\ c.valid
       /\ auth' = [auth EXCEPT
                     !.user = MockUid(c.fn),
                     !.isGuest = IF c.fn = "signInAsGuest" THEN TRUE ELSE @,
                     !.stored = Record(MockUid(c.fn), c.fn = "signInAsGuest"),
                     !.loading = FALSE,
                     !.pending[p] = NoAuthCall,
                     !.done = [fn |-> c.fn, result |-> "ok"]]
       /\ page' = ClearEvents(page)
       /\ StoreUntouched
       /\ UNCHANGED started

\* The mock of signIn, signUp or signInAsGuest resolves: setUser, setIsGuest
\* and localStorage.setItem in one synchronous run, then setLoading(false).
signInResolves(p) ==
    LET c == auth.pending[p]
    IN /\ c.fn \in {"signIn", "signUp", "signInAsGuest"}
       /\ c.valid
       /\ auth' = [auth EXCEPT
                     !.user = MockUid(c.fn),
                     !.isGuest = (c.fn = "signInAsGuest"),
                     !.stored = Record(MockUid(c.fn), c.fn = "signInAsGuest"),
                     !.loading = FALSE,
                     !.pending[p] = NoAuthCall,
                     !.done = [fn |-> c.fn, result |-> "ok"]]
       /\ page' = ClearEvents(page)
       /\ StoreUntouched
       /\ UNCHANGED started

\* The mock of signIn or signUp throws on an empty argument: the catch
\* rethrows, finally runs setLoading(false).
mockRejects(p) ==
    LET c == auth.pending[p]
    IN /\ c.fn \in {"signIn", "signUp"}
       /\ ~c.valid
       /\ auth' = [auth EXCEPT !.loading = FALSE,
                               !.pending[p] = NoAuthCall,
                               !.done = [fn |-> c.fn, result |-> "error"]]
       /\ page' = ClearEvents(page)
       /\ StoreUntouched
       /\ UNCHANGED started

\* mockSignOut resolves: setUser(null), setIsGuest(false), removeItem.
signOutResolves(p) ==
    LET c == auth.pending[p]
    IN /\ c.fn = "signOut"
       /\ auth' = [auth EXCEPT
                     !.user = NoUser,
                     !.isGuest = FALSE,
                     !.stored = NoRecord,
                     !.loading = FALSE,
                     !.pending[p] = NoAuthCall,
                     !.done = [fn |-> c.fn, result |-> "ok"]]
       /\ page' = ClearEvents(page)
       /\ StoreUntouched
       /\ UNCHANGED started

\* The rooms of the dashboard's list, by their number.
RoomNumbers == {1, 2}

GuestToast == "Guest Account Limitation"

\* The pages are shown once the mount effects ran and somebody is signed in
\* (without a stored user they redirect to /login).
Shown == auth.mounted /\ auth.stored.exists

\* A handler ran: its name, the toast it showed, and the rest of the page.
Ran(handler, toast, pg) == [pg EXCEPT !.handler = handler, !.toast = toast]

\* A step of a handler that calls nothing of lib/room-service.
LocalStep ==
    /\ started < MaxCalls
    /\ started' = started + 1
    /\ auth' = [auth EXCEPT !.done = NoneDone]
    /\ StoreUntouched

\* Dashboard: handleInputChange fills in or clears the required fields.
handleInputChange(v) ==
    /\ Shown
    /\ v \in {"empty", "filled"} \ {page.roomDetails}
    /\ page' = Ran("handleInputChange", "", [ClearEvents(page) EXCEPT !.roomDetails = v])
    /\ auth' = [auth EXCEPT !.done = NoneDone]
    /\ StoreUntouched
    /\ UNCHANGED started

handleAddRoom_NoGuestCheck(isEditing) ==
    /\ Shown
    /\ page' =
         IF page.roomDetails = "empty"
         THEN Ran("handleAddRoom", "Missing Information", ClearEvents(page))
         ELSE Ran("handleAddRoom", IF isEditing THEN "Room Updated" ELSE "Room Added",
                  [ClearEvents(page) EXCEPT
                     !.called = {IF isEditing THEN "updateRoom" ELSE "addRoom", "getAllRooms"},
                     !.listed = TRUE,
                     !.roomDetails = "empty"])
    /\ LocalStep

\* Dashboard: handleAddRoom.  addRoom, updateRoom and getAllRooms are the
\* page's own stand-ins, which reach no store.
handleAddRoom(isEditing) ==
    /\ Shown
    /\ page' =
         IF auth.isGuest
         THEN Ran("handleAddRoom", GuestToast, ClearEvents(page))
         ELSE IF page.roomDetails = "empty"
         THEN Ran("handleAddRoom", "Missing Information", ClearEvents(page))
         ELSE Ran("handleAddRoom", IF isEditing THEN "Room Updated" ELSE "Room Added",
                  [ClearEvents(page) EXCEPT
                     !.called = {IF isEditing THEN "updateRoom" ELSE "addRoom", "getAllRooms"},
                     !.listed = TRUE,
                     !.roomDetails = "empty"])
    /\ LocalStep

\* Dashboard: toggleFavorite(id), on the page's own addFavorite and
\* removeFavorite.
toggleFavorite(id) ==
    /\ Shown
    /\ page' =
         IF auth.isGuest
         THEN Ran("toggleFavorite", GuestToast, ClearEvents(page))
         ELSE IF id \in page.favorites
         THEN Ran("toggleFavorite", "Removed from favorites",
                  [ClearEvents(page) EXCEPT !.called = {"removeFavorite"},
                                            !.favorites = @ \ {id}])
         ELSE Ran("toggleFavorite", "Added to favorites",
                  [ClearEvents(page) EXCEPT !.called = {"addFavorite"},
                                            !.favorites = @ \cup {id}])
    /\ LocalStep

\* Room page: loadRoom, getRoomById(params.id) answers with the room or throws.
loadRoom(id) ==
    /\ Shown
    /\ page.room = NoRoomLoaded
    /\ page' = IF rooms[id].exists
               THEN Ran("loadRoom", "", [ClearEvents(page) EXCEPT !.room = id])
               ELSE Ran("loadRoom", "Error", ClearEvents(page))
    /\ auth' = [auth EXCEPT !.done = NoneDone]
    /\ StoreUntouched
    /\ UNCHANGED started

\* Room page: handleInquiryChange.
handleInquiryChange(v) ==
    /\ Shown
    /\ page.room # NoRoomLoaded
    /\ v \in {"empty", "filled"} \ {page.inquiryForm}
    /\ page' = Ran("handleInquiryChange", "", [ClearEvents(page) EXCEPT !.inquiryForm = v])
    /\ auth' = [auth EXCEPT !.done = NoneDone]
    /\ StoreUntouched
    /\ UNCHANGED started

\* Room page: handleInquirySubmit.
handleInquirySubmit ==
    /\ Shown
    /\ page.room # NoRoomLoaded
    /\ page' =
         IF auth.isGuest
         THEN Ran("handleInquirySubmit", GuestToast, ClearEvents(page))
         ELSE Ran("handleInquirySubmit", "Inquiry Sent",
                  [ClearEvents(page) EXCEPT !.inquiryForm = "empty"])
    /\ LocalStep

\* A function of lib/room-service called from the room page, up to its
\* return: the user it acts for is getCurrentUser().  An authorized deleteRoom
\* goes on with its write as in SpecRooms.
callsService(fn, id) ==
    LET user == auth.currentUser
    IN IF ~Authenticated(user) THEN failsUnauthenticated(fn, user)
       ELSE IF fn = "addFavorite" THEN addFavorite(user, id)
       ELSE IF fn = "removeFavorite" THEN removeFavorite(user, id)
       ELSE \/ roomNotFound(fn, user, id)
            \/ roomNotAuthorized(fn, user, id)
            \/ deleteRoomGetDoc(1, user, id)

\* Room page: toggleFavorite, on addFavorite and removeFavorite of
\* lib/room-service; the button is there once a room is loaded.
toggleFavoriteRoomPage ==
    /\ Shown
    /\ page.room # NoRoomLoaded
    /\ auth' = [auth EXCEPT !.done = NoneDone]
    /\ IF auth.isGuest
       THEN /\ page' = Ran("toggleFavoriteRoomPage", GuestToast, ClearEvents(page))
            /\ started < MaxCalls
            /\ started' = started + 1
            /\ StoreUntouched
       ELSE LET fn == IF page.isFavorite THEN "removeFavorite" ELSE "addFavorite"
            IN /\ callsService(fn, page.room)
               /\ page' =
                    IF out'.result = "ok"
                    THEN Ran("toggleFavoriteRoomPage",
                             IF page.isFavorite THEN "Removed from favorites"
                                                ELSE "Added to favorites",
                             [ClearEvents(page) EXCEPT !.called = {fn},
                                                       !.isFavorite = ~@])
                    ELSE Ran("toggleFavoriteRoomPage", "Error",
                             [ClearEvents(page) EXCEPT !.called = {fn}])

\* Room page: confirmDeleteRoom, on deleteRoom of lib/room-service.
confirmDeleteRoom ==
    /\ Shown
    /\ page.room # NoRoomLoaded
    /\ auth' = [auth EXCEPT !.done = NoneDone]
    /\ callsService("deleteRoom", page.room)
    /\ page' = Ran("confirmDeleteRoom",
                   IF out'.result = "none" THEN "" ELSE "Error",
                   [ClearEvents(page) EXCEPT !.called = {"deleteRoom"}])

\* A session of the client over the store of InitLayer: localStorage holds
\* what an earlier session left.
InitClient ==
    /\ InitLayerStore
    /\ \E rec \in StoredRecords : auth = [NoAuth EXCEPT !.stored = rec]
    /\ page = NoPage

\* AuthProvider alone: its four functions called in any interleaving.
NextAuth ==
    \/ mountEffect
    \/ \E p \in Slots, f \in AuthFns, v \in BOOLEAN : authCall(p, f, v)
    \/ \E p \in Slots : signInResolves(p)
    \/ \E p \in Slots : mockRejects(p)
    \/ \E p \in Slots : signOutResolves(p)

SpecAuth == InitClient /\ [][NextAuth]_vars

\* The client: AuthProvider and the handlers of the two pages.
NextClient ==
    \/ mountEffect
    \/ \E p \in Slots, f \in AuthFns, v \in BOOLEAN : authCall(p, f, v)
    \/ \E p \in Slots : signInResolves(p)
    \/ \E p \in Slots : mockRejects(p)
    \/ \E p \in Slots : signOutResolves(p)
    \/ \E v \in {"empty", "filled"} : handleInputChange(v)
    \/ \E e \in BOOLEAN : handleAddRoom(e)
    \/ \E n \in RoomNumbers : toggleFavorite(n)
    \/ \E r \in RoomIds : loadRoom(r)
    \/ \E v \in {"empty", "filled"} : handleInquiryChange(v)
    \/ handleInquirySubmit
    \/ toggleFavoriteRoomPage
    \/ confirmDeleteRoom

SpecClient == InitClient /\ [][NextClient]_vars

\* ------------------------------------------------- vocabulary of the claims
\* The review documents a room has now.
ReviewDocsOf(roomId) ==
    {k \in DOMAIN reviews : reviews[k].exists /\ reviews[k].roomId = roomId}

\* The mean of total over count rounded to one decimal, in tenths.
RoundedMean(total, count) == (20 * total + count) \div (2 * count)

\* The room's stored summary is the aggregate of its current reviews.
SummaryMatches(roomId) ==
    LET docs == ReviewDocsOf(roomId)
    IN /\ rooms[roomId].exists
       /\ rooms[roomId].reviews = Cardinality(docs)
       /\ rooms[roomId].rating =
             IF docs = {} THEN 0 ELSE RoundedMean(SumRatings(docs), Cardinality(docs))

\* Every invocation so far created a document of its own: no reviewer
\* submitted twice for a room, and every review write committed.
DistinctReviewers == Cardinality({k \in DOMAIN reviews : reviews[k].exists}) = started

\* ----------------------------------------------------------------- claims
\* C1 (as claimed; SpecNoFail): once no addReview is in flight, every room
\* reviewed by n distinct reviewers has reviews = n and rating = the rounded
\* mean of their ratings, whatever the interleaving of the calls was.
C1_SettledSummaryMatches ==
    (AllIdle /\ DistinctReviewers) =>
        \A r \in RoomIds : ReviewDocsOf(r) # {} => SummaryMatches(r)

C3_ResubmitReplaces ==
    /\ \A p \in Slots :
          (call[p].pc # "idle" /\ call[p].replaced) =>
             /\ Cardinality(ReviewDocsOf(call[p].roomId)) = call[p].docsBefore
             /\ reviews[ReviewKey(call[p].uid, call[p].roomId)].rating = call[p].rating
    /\ (ret.result = "ok" /\ ret.replaced) =>
          /\ Cardinality(ReviewDocsOf(ret.roomId)) = ret.docsBefore
          /\ rooms[ret.roomId].reviews = ret.docsBefore
          /\ reviews[ReviewKey(ret.uid, ret.roomId)].rating = ret.rating
          /\ rooms[ret.roomId].rating =
                RoundedMean(SumRatings(ReviewDocsOf(ret.roomId)), ret.docsBefore)

\* Rating 4, then the same reviewer resubmits 2: rating 2.0, reviews 1.
C3_Witness ==
    /\ ret.result = "ok" /\ ret.replaced
    /\ ret.uid = "u1" /\ ret.roomId = "r1" /\ ret.rating = 2
    /\ rooms["r1"].rating = 20
    /\ rooms["r1"].reviews = 1
    /\ rooms["r1"].updatedAt = 4
    /\ reviews[ReviewKey("u1", "r1")].createdAt = 3

\* C4 (Spec): with no signed-in user addReview fails with the authentication
\* error and touches nothing: no document is written, no recomputation
\* starts, and no invocation ever reaches the store without a user.
C4_UnauthenticatedTouchesNothing ==
    /\ [](\A p \in Slots : call[p].pc # "idle" => call[p].uid \in Uids)
    /\ [](\A k \in ReviewKeys : reviews[k].exists => reviews[k].userId \in Uids)
    /\ [][ret'.result = "authError" => UNCHANGED <<rooms, reviews, call, clock, snapOf>>]_vars

C4_Witness ==
    /\ ret.result = "authError"
    /\ \E r \in RoomIds : rooms[r].reviews = 1 /\ Cardinality(ReviewDocsOf(r)) = 1

\* C5 (Spec): when the review write fails, addReview fails without starting
\* the recomputation and the room documents (rating, reviews, updatedAt) stay
\* as they were; a recomputation only ever runs for a review that was written.
C5_FailedReviewWriteStopsThere ==
    /\ [](\A p \in Slots :
            call[p].pc \in {"getDocs", "updateDoc"} =>
               reviews[ReviewKey(call[p].uid, call[p].roomId)].exists)
    /\ [][ret'.result = "writeError" => UNCHANGED <<rooms, reviews, call, clock, snapOf>>]_vars

C5_Witness ==
    /\ ret.result = "writeError"
    /\ AllIdle
    /\ \E r \in RoomIds : rooms[r].reviews = 1 /\ rooms[r].updatedAt = 2

\* C6 (Spec): when the query of updateRoomRating fails, nothing is written to
\* the room document and the review written by the same addReview stays.
C6_FailedQueryWritesNothing ==
    [][ret'.result = "readError" =>
          /\ rooms' = rooms
          /\ reviews' = reviews
          /\ reviews'[ReviewKey(ret'.uid, ret'.roomId)].exists]_vars

\* The second review of a room is stored, the summary still counts one.
C6_Witness ==
    /\ ret.result = "readError"
    /\ Cardinality(ReviewDocsOf(ret.roomId)) = 2
    /\ rooms[ret.roomId].reviews = 1

\* C7 (SpecSeq): when the room write of updateRoomRating fails, the review
\* stays and the room document is untouched; the next addReview for that room
\* that succeeds brings the summary to the aggregate of all the room's
\* current reviews, the one whose recomputation failed included.
C7_NextReviewHeals ==
    /\ [][ret'.result = "updateError" =>
             /\ rooms' = rooms
             /\ reviews' = reviews
             /\ reviews'[ReviewKey(ret'.uid, ret'.roomId)].exists]_vars
    /\ []((ret.result = "ok" /\ ret.healed # {}) =>
             /\ SummaryMatches(ret.roomId)
             /\ ret.healed \subseteq ReviewDocsOf(ret.roomId))

\* Another reviewer's successful submission makes up for the failed one.
C7_Witness ==
    /\ ret.result = "ok"
    /\ ret.healed # {}
    /\ ReviewKey(ret.uid, ret.roomId) \notin ret.healed
    /\ rooms[ret.roomId].reviews = 2

C9_RecomputeIdempotent ==
    [][(ret'.result = "ok" /\ ret'.repeat) =>
          /\ rooms'[ret'.roomId].rating = rooms[ret'.roomId].rating
          /\ rooms'[ret'.roomId].reviews = rooms[ret'.roomId].reviews]_vars

C9_Witness ==
    /\ ret.result = "ok"
    /\ ret.repeat
    /\ rooms[ret.roomId].reviews = 2
    /\ rooms[ret.roomId].updatedAt = 4

\* C10 (as claimed; SpecSeq): once a review document exists its createdAt
\* never changes, resubmissions included.
C10_CreatedAtKept ==
    [][\A k \in ReviewKeys :
          reviews[k].exists => reviews'[k].createdAt = reviews[k].createdAt]_vars

\* C11 (as claimed; SpecRating): for every non-empty result the rating
\* written is the mean rounded to one decimal, an exact tie at the second
\* decimal going upward (4.35 to 4.4).
C11_RoundsHalfUp ==
    (recompute.pc = "done" /\ recompute.reviewCount > 0) =>
        recompute.rating = RoundedMean(recompute.totalRating, recompute.reviewCount)

\* C12 (as claimed; SpecRooms): a room without reviews has average rating 0:
\* the value updateRoomRating computes from an empty query result is 0, and
\* so is the stored rating of every room that has no review, a room that
\* addRoom has just created included.
C12_NoReviewsRatingZero ==
    /\ (recompute.pc = "done" /\ recompute.reviewCount = 0) => recompute.rating = 0
    /\ \A r \in RoomIds :
          (rooms[r].exists /\ ReviewDocsOf(r) = {}) => rooms[r].rating = 0

\* C13 (Spec): every remote call of addReview / updateRoomRating is made
\* once.  When it fails the invocation is over in that very step: the caller
\* gets the error of the call that failed (of the review write, of the query,
\* of the room write), nothing is written, and neither the query, the room
\* write nor the success return of that invocation follows.  An invocation
\* returns success only in the step in which its room write commits.
C13_FailureEndsTheCall ==
    [][/\ ret'.result \in {"authError", "writeError"} =>
             UNCHANGED <<rooms, reviews, call, clock>>
       /\ \A p \in Slots :
             (call[p].pc # "idle" /\ call'[p] # call[p]) =>
                \/ /\ call[p].pc = "getDocs"
                   /\ call'[p].pc = "updateDoc"
                   /\ ret'.result = "none"
                   /\ UNCHANGED <<rooms, reviews, clock>>
                \/ /\ call[p].pc = "updateDoc"
                   /\ call'[p].pc = "idle"
                   /\ ret'.result = "ok"
                   /\ rooms'[call[p].roomId].updatedAt = clock
                   /\ clock' = clock + 1
                \/ /\ call'[p].pc = "idle"
                   /\ ret'.result = IF call[p].pc = "getDocs" THEN "readError"
                                                              ELSE "updateError"
                   /\ ret'.uid = call[p].uid
                   /\ ret'.roomId = call[p].roomId
                   /\ UNCHANGED <<rooms, reviews, clock>>
       /\ ret'.result \in {"readError", "updateError", "ok"} =>
             \E p \in Slots :
                /\ call[p].pc = IF ret'.result = "readError" THEN "getDocs" ELSE "updateDoc"
                /\ call'[p].pc = "idle"
                /\ \A q \in Slots \ {p} : call'[q] = call[q]]_vars

\* The query of one invocation fails while another invocation for the same
\* room is between its query and its room write.
C13_Witness ==
    /\ ret.result = "readError"
    /\ \E p \in Slots : call[p].pc = "updateDoc" /\ call[p].roomId = ret.roomId
    /\ rooms[ret.roomId].reviews = Absent

\* The (reviewer, room) pairs that have a review.
ReviewedPairs == {<<reviews[k].userId, reviews[k].roomId>> :
                    k \in {x \in DOMAIN reviews : reviews[x].exists}}

\* C14 (SpecLayer): no function of the layer deletes a review: a review
\* document that exists still exists after every step, for the same reviewer
\* and room, so the set of reviewed (reviewer, room) pairs only grows; this
\* includes deleteRoom of the reviewed room, removeFavorite and a
\* resubmission.
C14_ReviewsNeverDeleted ==
    [][/\ \A k \in DOMAIN reviews :
             reviews[k].exists =>
                /\ reviews'[k].exists
                /\ reviews'[k].userId = reviews[k].userId
                /\ reviews'[k].roomId = reviews[k].roomId
       /\ ReviewedPairs \subseteq ReviewedPairs']_vars

\* The reviewed room has just been deleted by its owner; its review is
\* still stored.
C14_Witness ==
    /\ out.fn = "deleteRoom" /\ out.result = "ok" /\ out.wrote
    /\ ~rooms[out.id].exists
    /\ ReviewDocsOf(out.id) # {}
    /\ <<"u2", out.id>> \in ReviewedPairs

\* The reviews of a room that were written before server time t.
ReviewDocsBefore(roomId, t) == {k \in ReviewDocsOf(roomId) : reviews[k].updatedAt < t}

\* C15 (SpecNoFail): overlapping addReview calls for a room are not kept
\* apart: the summary of a room is the aggregate of the reviews that the
\* recomputation whose room write committed last had read, whatever was
\* written since and whatever a recomputation that committed earlier had
\* read (distinct reviewers, so that no review read was replaced later).
C15_LastCommitWins ==
    DistinctReviewers =>
       \A r \in RoomIds :
          snapOf[r] > 0 =>
             LET seen == ReviewDocsBefore(r, snapOf[r])
             IN /\ seen # {}
                /\ rooms[r].reviews = Cardinality(seen)
                /\ rooms[r].rating = RoundedMean(SumRatings(seen), Cardinality(seen))

\* Both submissions have returned successfully and the room still carries
\* the summary of the older read: one review counted, two stored.
C15_Witness ==
    /\ ret.result = "ok"
    /\ AllIdle
    /\ DistinctReviewers
    /\ Cardinality(ReviewDocsOf(ret.roomId)) = 2
    /\ rooms[ret.roomId].reviews = 1
    /\ snapOf[ret.roomId] <= LastReviewWrite(ret.roomId)
    /\ ~SummaryMatches(ret.roomId)

\* C16 (SpecLayer): the key made of the uid, "_" and the room id gives one
\* record per (user, room) pair, for reviews and for favorites: distinct
\* pairs have distinct keys, every document is stored under the key of the
\* pair in its userId and roomId fields (so no two documents are of the same
\* pair), and a step that changes or deletes an existing document is a write
\* or delete for that document's own pair.
C16_OneRecordPerPair ==
    /\ [](\A u1 \in Uids, u2 \in Uids, r1 \in RoomIdArgs, r2 \in RoomIdArgs :
             /\ FavoriteKey(u1, r1) = FavoriteKey(u2, r2) => (u1 = u2 /\ r1 = r2)
             /\ ReviewKey(u1, r1) = ReviewKey(u2, r2) => (u1 = u2 /\ r1 = r2))
    /\ [](\A k \in DOMAIN favorites :
             favorites[k].exists =>
                k = favorites[k].userId \o "_" \o favorites[k].roomId)
    /\ [](\A k \in DOMAIN reviews :
             reviews[k].exists => k = reviews[k].userId \o "_" \o reviews[k].roomId)
    /\ [][\A k \in DOMAIN favorites :
             (favorites[k].exists /\ favorites'[k] # favorites[k]) =>
                /\ out'.fn \in {"addFavorite", "removeFavorite"}
                /\ out'.uid = favorites[k].userId
                /\ out'.id = favorites[k].roomId]_vars
    /\ [][\A k \in DOMAIN reviews :
             (reviews[k].exists /\ reviews'[k] # reviews[k]) =>
                \E p \in Slots :
                   /\ call[p].pc = "idle" /\ call'[p].pc = "getDocs"
                   /\ call'[p].uid = reviews[k].userId
                   /\ call'[p].roomId = reviews[k].roomId]_vars

\* Two users have the same room id, one with "_" in it, as a favorite: two
\* documents; the second addFavorite left the first user's document alone.
C16_Witness ==
    /\ out.fn = "addFavorite" /\ out.result = "ok"
    /\ out.uid = "u2" /\ out.id = "x_r1"
    /\ favorites[FavoriteKey("u1", "x_r1")].exists
    /\ favorites[FavoriteKey("u1", "x_r1")].userId = "u1"
    /\ favorites[FavoriteKey("u2", "x_r1")].createdAt = 2

\* C17 (SpecAnyRating): addReview does not check the range of the rating.  A
\* call by a signed-in user with a rating outside 1..5 is carried out like
\* any other: the review document holds the rating as given, neither
\* clamped nor refused, and on successful return the room's rating is the
\* rounded mean of the stored ratings, that one included.
C17_RatingNotChecked ==
    /\ \A p \in Slots :
          call[p].pc # "idle" =>
             /\ reviews[ReviewKey(call[p].uid, call[p].roomId)].exists
             /\ reviews[ReviewKey(call[p].uid, call[p].roomId)].rating = call[p].rating
    /\ ret.result = "ok" =>
          /\ reviews[ReviewKey(ret.uid, ret.roomId)].rating = ret.rating
          /\ rooms[ret.roomId].reviews = Cardinality(ReviewDocsOf(ret.roomId))
          /\ rooms[ret.roomId].rating =
                RoundedMean(SumRatings(ReviewDocsOf(ret.roomId)),
                            Cardinality(ReviewDocsOf(ret.roomId)))

\* Ratings 9 and 3: the room's rating is 6.0, above the five stars.
C17_Witness ==
    /\ ret.result = "ok"
    /\ ret.rating = 9
    /\ ret.rating \notin Stars
    /\ reviews[ReviewKey(ret.uid, ret.roomId)].rating = 9
    /\ rooms[ret.roomId].reviews = 2
    /\ rooms[ret.roomId].rating = 60

\* C18 (as claimed; SpecRooms): updateRoom and deleteRoom change a room only
\* for its owner.  A call by another user fails as not authorized and a call
\* for an id without document fails as not found, and these write nothing;
\* only the owner gets past the check; and under every interleaving each
\* write or delete that commits is issued by the user who owns the room at
\* the moment it commits.
C18_OnlyOwnerChangesRoom ==
    [][/\ out'.result = "notAuthorized" =>
             /\ rooms[out'.id].exists
             /\ rooms[out'.id].owner # out'.uid
             /\ UNCHANGED <<rooms, op>>
       /\ out'.result = "notFound" =>
             /\ ~rooms[out'.id].exists
             /\ UNCHANGED <<rooms, op>>
       /\ \A p \in Slots :
             (op[p].pc = "idle" /\ op'[p].pc # "idle") =>
                /\ rooms[op'[p].id].exists
                /\ rooms[op'[p].id].owner = op'[p].uid
       /\ \A r \in RoomIds :
             (rooms[r].exists /\ rooms'[r] # rooms[r]) =>
                /\ out'.fn \in {"updateRoom", "deleteRoom"}
                /\ out'.result = "ok"
                /\ out'.id = r
                /\ rooms[r].owner = out'.uid]_vars

\* C19 (SpecLayer): every function that acts for a user fails with the
\* authentication error when getCurrentUser() is null, and only then; the
\* failing step reads and writes nothing, so no call is ever in flight and no
\* document is ever stored for no user.  getAllRooms and getRoomById answer
\* without a user.
C19_NoUserNoAccess ==
    /\ [](\A p \in Slots :
             /\ op[p].pc # "idle" => op[p].uid \in Uids
             /\ call[p].pc # "idle" => call[p].uid \in Uids)
    /\ [](/\ \A r \in RoomIds : rooms[r].exists => rooms[r].owner \in Uids
          /\ \A k \in DOMAIN favorites :
                favorites[k].exists => favorites[k].userId \in Uids
          /\ \A k \in DOMAIN reviews : reviews[k].exists => reviews[k].userId \in Uids)
    /\ [](out.fn \in ActingFns => (out.result = "authError" <=> out.uid = NoUser))
    /\ [](out.fn \in PublicFns => out.result \in {"ok", "notFound"})
    /\ [][(out'.result = "authError" \/ ret'.result = "authError") =>
             UNCHANGED <<rooms, reviews, favorites, call, op, clock, nextRoom>>]_vars

\* deleteRoom without a user, after a room was added: refused, both rooms
\* are still there.
C19_Witness ==
    /\ out.fn = "deleteRoom"
    /\ out.result = "authError"
    /\ out.uid = NoUser
    /\ \A r \in RoomIds : rooms[r].exists

\* The rooms a user has as favorites, and the documents of a pair.
FavoritesOf(user) ==
    {favorites[k].roomId :
        k \in {x \in DOMAIN favorites : favorites[x].exists /\ favorites[x].userId = user}}
FavoriteDocsOf(user, roomId) ==
    {k \in DOMAIN favorites :
        favorites[k].exists /\ favorites[k].userId = user /\ favorites[k].roomId = roomId}

\* C20 (SpecFavorites): the favorites of a user are a set.  There is never
\* more than one document per (user, room); addFavorite adds the room to the
\* caller's set (a room already in it stays once) and removeFavorite takes
\* it out, and neither touches a document of another user or room;
\* removeFavorite right after addFavorite of a room that was not a favorite
\* gives back the set there was before.
C20_FavoritesAreASet ==
    /\ [](\A u \in Uids, r \in RoomIdArgs : Cardinality(FavoriteDocsOf(u, r)) <= 1)
    /\ [][\A u \in Uids, r \in RoomIdArgs :
             (/\ out'.fn \in {"addFavorite", "removeFavorite"} /\ out'.result = "ok"
              /\ out'.uid = u /\ out'.id = r) =>
               /\ out'.before = FavoritesOf(u)
               /\ FavoritesOf(u)' = IF out'.fn = "addFavorite"
                                     THEN FavoritesOf(u) \cup {r}
                                     ELSE FavoritesOf(u) \ {r}
               /\ Cardinality(FavoriteDocsOf(u, r)') =
                     IF out'.fn = "addFavorite" THEN 1 ELSE 0
               /\ \A k \in DOMAIN favorites :
                     (favorites[k].exists
                        /\ <<favorites[k].userId, favorites[k].roomId>> # <<u, r>>)
                     => favorites'[k] = favorites[k]]_vars
    /\ [][\A u \in Uids :
             (/\ out.fn = "addFavorite" /\ out.result = "ok" /\ out.uid = u
              /\ out.id \notin out.before
              /\ out'.fn = "removeFavorite" /\ out'.result = "ok"
              /\ out'.uid = u /\ out'.id = out.id) =>
               FavoritesOf(u)' = out.before]_vars

\* u1 removes a room that is a favorite of u2 only: nothing of u1 to delete,
\* the favorite of u2 stays.
C20_Witness ==
    /\ out.fn = "removeFavorite" /\ out.result = "ok"
    /\ out.uid = "u1" /\ ~out.wrote
    /\ FavoritesOf("u1") = {}
    /\ FavoritesOf("u2") = {out.id}

\* C21 (SpecGetFavorites): getFavorites called by a user does not fail over a
\* favorite whose room is gone, and the array it returns has one entry for
\* each favorite document of the caller whose room exists: no entry for a
\* missing room, none for a favorite of another user, none twice.
C21_GetFavoritesSkipsMissingRooms ==
    out.fn = "getFavorites" =>
        /\ out.result = IF out.uid = NoUser THEN "authError" ELSE "ok"
        /\ out.result = "ok" =>
              LET kept == {r \in FavoritesOf(out.uid) : r \in RoomIds /\ rooms[r].exists}
              IN /\ {out.rooms[i] : i \in DOMAIN out.rooms} = kept
                 /\ Len(out.rooms) = Cardinality(kept)

\* u2 has r1 and r2 as favorites and r1 was deleted; u1 has other favorites.
C21_Witness ==
    /\ out.fn = "getFavorites" /\ out.result = "ok" /\ out.uid = "u2"
    /\ ~rooms["r1"].exists
    /\ FavoritesOf("u2") = {"r1", "r2"}
    /\ FavoritesOf("u1") = {"r1"}
    /\ out.rooms = <<"r2">>

\* The handlers that begin with the guest check.
GuestCheckedHandlers ==
    {"handleAddRoom", "toggleFavorite", "toggleFavoriteRoomPage", "handleInquirySubmit"}

\* C22 (SpecClient): while isGuest is true, handleAddRoom and toggleFavorite
\* of the dashboard and toggleFavorite and handleInquirySubmit of the room
\* page show the guest limitation message and return: they call no room or
\* favorite function and change neither the favorites list, the room list,
\* the isFavorite flag, the inquiry form nor the store.
C22_GuestsOnlyBrowse ==
    [][(page'.handler \in GuestCheckedHandlers /\ auth.isGuest) =>
          /\ page'.toast = GuestToast
          /\ page'.called = {}
          /\ page'.favorites = page.favorites
          /\ page'.listed = page.listed
          /\ page'.isFavorite = page.isFavorite
          /\ page'.inquiryForm = page.inquiryForm
          /\ out'.fn = ""
          /\ UNCHANGED <<rooms, favorites, reviews, clock, nextRoom>>]_vars

\* A guest submits a filled-in inquiry form: the form is still filled in.
C22_Witness ==
    /\ auth.isGuest
    /\ page.handler = "handleInquirySubmit"
    /\ page.toast = GuestToast
    /\ page.inquiryForm = "filled"

\* C23 (as claimed; SpecRooms): addRoom and updateRoom never set or alter the
\* rating or the review count of a room document: a new room has neither,
\* and a room that stays keeps both, whoever calls and whatever roomData is.
C23_OnlyRecomputeSetsRating ==
    [][\A r \in RoomIds :
          rooms'[r].exists =>
             /\ rooms'[r].rating = IF rooms[r].exists THEN rooms[r].rating ELSE Absent
             /\ rooms'[r].reviews = IF rooms[r].exists THEN rooms[r].reviews ELSE Absent]_vars

\* C24 (as claimed; SpecRooms): as long as a room document exists its owner
\* is the one it was created with, whatever updateRoom calls are made.
C24_OwnerNeverChanges ==
    [][\A r \in RoomIds :
          (rooms[r].exists /\ rooms'[r].exists) => rooms'[r].owner = rooms[r].owner]_vars

\* C25 (as claimed; SpecLayer): addReview for a room id without a room
\* document creates no room document and leaves no review behind: no review
\* document is written for a room id that has no document.
C25_NoReviewForMissingRoom ==
    /\ [][\A r \in RoomIds :
             (~rooms[r].exists /\ rooms'[r].exists) => out'.fn = "addRoom"]_vars
    /\ [][\A k \in DOMAIN reviews :
             reviews'[k] # reviews[k] => rooms[reviews'[k].roomId].exists]_vars

\* C26 (as claimed; SpecClient): when the auth context has a signed-in user
\* who is no guest, getCurrentUser() is non-null, and toggleFavorite and
\* confirmDeleteRoom of the room page do not fail with "User not
\* authenticated".
C26_ContextUserIsServiceUser ==
    (auth.mounted /\ auth.user # NoUser /\ ~auth.isGuest) =>
        /\ auth.currentUser # NoUser
        /\ page.handler \in {"toggleFavoriteRoomPage", "confirmDeleteRoom"} =>
              out.result # "authError"

\* C27 (SpecRooms): the room addRoom creates is owned by the caller: owner
\* is the caller's uid, ownerName the caller's displayName or "Anonymous",
\* createdAt the server time of the write, whatever roomData carries under
\* these names.
C27_NewRoomOwnedByCaller ==
    [][(out'.fn = "addRoom" /\ out'.result = "ok") =>
          /\ out'.uid \in Uids
          /\ ~rooms[out'.id].exists
          /\ rooms'[out'.id].exists
          /\ rooms'[out'.id].owner = out'.uid
          /\ rooms'[out'.id].ownerName =
                (IF displayName(out'.uid) = "" THEN "Anonymous" ELSE displayName(out'.uid))
          /\ rooms'[out'.id].createdAt = clock]_vars

\* u1, who has no displayName, calls addRoom with the owner, ownerName and
\* createdAt of a room of u2 in roomData.
C27_Witness ==
    /\ out.fn = "addRoom" /\ out.result = "ok" /\ out.uid = "u1"
    /\ out.data.owner = "u2" /\ out.data.ownerName = "owner-u2" /\ out.data.createdAt = 0
    /\ rooms[out.id].owner = "u1"
    /\ rooms[out.id].ownerName = "Anonymous"
    /\ rooms[out.id].createdAt > 0

\* C28 (SpecAuth): once the mount effect has run, under any interleaving of
\* signIn, signUp, signInAsGuest and signOut, isGuest = true implies a
\* user; whenever no call is in flight the "currentUser" record exists
\* exactly when there is a user, for that user and with the isGuest of the
\* context; a call that fails changes neither user, isGuest nor the record.
C28_AuthStateConsistent ==
    /\ []((auth.mounted /\ auth.isGuest) => auth.user # NoUser)
    /\ []((auth.mounted /\ NoAuthCallPending) =>
             /\ auth.stored.exists <=> auth.user # NoUser
             /\ auth.stored.exists =>
                  /\ auth.stored.uid = auth.user
                  /\ auth.stored.isGuest = auth.isGuest)
    /\ [][auth'.done.result = "error" =>
             /\ auth'.user = auth.user
             /\ auth'.isGuest = auth.isGuest
             /\ auth'.stored = auth.stored]_vars

\* A guest is signed in, a signOut is in flight, and a signIn with an empty
\* password has just failed.
C28_Witness ==
    /\ auth.done = [fn |-> "signIn", result |-> "error"]
    /\ auth.isGuest /\ auth.user = MockUid("signInAsGuest")
    /\ auth.stored = Record(MockUid("signInAsGuest"), TRUE)
    /\ \E p \in Slots : auth.pending[p].fn = "signOut"

====
